---------------------------- MODULE Spec2Model ----------------------------
(***************************************************************************)
(* Fuel price dashboard: the CSV record parser (hooks/useFuelData.ts), the *)
(* filter option extractor, the monthly aggregator and the default         *)
(* selector (utils/dataProcessing.ts) and the App component's state        *)
(* (App.tsx).                                                              *)
(*                                                                         *)
(* Strings are sequences of one-character strings, so that trim, the       *)
(* default sort order and the number parsers are computed, not assumed.    *)
(* Prices are exact decimals counted in thousandths (1 rupee = Unit);      *)
(* binary floating point error is not represented.                         *)
(***************************************************************************)
EXTENDS Integers, Sequences, FiniteSets, TLC

\* Bounds of the model.
MaxRows == 3        \* rows in the CSV handed to the load callback
MaxRecords == 3     \* records handed to the pure functions

Unit == 10 * 10 * 10      \* thousandths per rupee
Cent == Unit \div 100     \* thousandths per 0.01

---------------------------------------------------------------------------
\* Characters and strings.

\* The characters of the model, each group in code unit order.
Digits == << "0", "1", "2", "3", "4", "5", "6", "7", "8", "9" >>
UpperCase ==
  << "A", "B", "C", "D", "E", "F", "G", "H", "I", "J", "K", "L", "M",
     "N", "O", "P", "Q", "R", "S", "T", "U", "V", "W", "X", "Y", "Z" >>
LowerCase ==
  << "a", "b", "c", "d", "e", "f", "g", "h", "i", "j", "k", "l", "m",
     "n", "o", "p", "q", "r", "s", "t", "u", "v", "w", "x", "y", "z" >>

IndexIn(seq, c) == CHOOSE i \in 1..Len(seq) : seq[i] = c
InSeq(seq, c) == \E i \in 1..Len(seq) : seq[i] = c

Characters ==
  { " ", "-", "." } \cup { Digits[i] : i \in 1..Len(Digits) }
    \cup { UpperCase[i] : i \in 1..Len(UpperCase) }
    \cup { LowerCase[i] : i \in 1..Len(LowerCase) }

\* UTF-16 code unit of each character.
CodeUnits ==
  [ c \in Characters |->
      CASE c = " " -> 32
        [] c = "-" -> 45
        [] c = "." -> 46
        [] InSeq(Digits, c) -> 47 + IndexIn(Digits, c)
        [] InSeq(UpperCase, c) -> 64 + IndexIn(UpperCase, c)
        [] InSeq(LowerCase, c) -> 96 + IndexIn(LowerCase, c) ]

Code(c) == CodeUnits[c]

IsDigit(c) == InSeq(Digits, c)
DigitVal(c) == Code(c) - Code("0")
IsWhiteSpace(c) == c = " "

\* String.prototype.trim
RECURSIVE TrimStart(_)
TrimStart(s) ==
  IF s = << >> THEN << >>
  ELSE IF IsWhiteSpace(Head(s)) THEN TrimStart(Tail(s)) ELSE s

RECURSIVE TrimEnd(_)
TrimEnd(s) ==
  IF s = << >> THEN << >>
  ELSE IF IsWhiteSpace(s[Len(s)]) THEN TrimEnd(SubSeq(s, 1, Len(s) - 1)) ELSE s

Trim(s) == TrimEnd(TrimStart(s))

\* Truthiness of a string: the empty string is falsy.
Truthy(s) == s # << >>

\* a < b in the order of Array.prototype.sort() without a comparator:
\* code unit by code unit, a proper prefix first.
RECURSIVE StrLess(_, _)
StrLess(a, b) ==
  IF b = << >> THEN FALSE
  ELSE IF a = << >> THEN TRUE
  ELSE IF Code(Head(a)) # Code(Head(b)) THEN Code(Head(a)) < Code(Head(b))
  ELSE StrLess(Tail(a), Tail(b))

---------------------------------------------------------------------------
\* The JavaScript runtime functions the parser calls.

\* The longest prefix of s made of digits.
RECURSIVE DigitPrefix(_)
DigitPrefix(s) ==
  IF s # << >> /\ IsDigit(Head(s)) THEN << Head(s) >> \o DigitPrefix(Tail(s))
  ELSE << >>

\* Value of a string of digits read as a decimal integer.
RECURSIVE DigitsValue(_)
DigitsValue(ds) ==
  IF ds = << >> THEN 0
  ELSE 10 * DigitsValue(SubSeq(ds, 1, Len(ds) - 1)) + DigitVal(ds[Len(ds)])

\* Value, in thousandths, of the digits after a decimal point; digits finer
\* than a thousandth are below the resolution of the model.
FractionValue(ds) ==
  (IF Len(ds) >= 1 THEN DigitVal(ds[1]) * (Unit \div 10) ELSE 0)
  + (IF Len(ds) >= 2 THEN DigitVal(ds[2]) * (Unit \div 100) ELSE 0)
  + (IF Len(ds) >= 3 THEN DigitVal(ds[3]) * (Unit \div 1000) ELSE 0)

\* parseFloat: skips leading white space, then reads the longest prefix that
\* is a decimal literal (sign, digits, point, digits) and ignores whatever
\* follows it; NaN when there is no such prefix.  Exponents and "Infinity"
\* are outside the alphabets of the model.
parseFloat(s) ==
  LET t == TrimStart(s)
      negative == t # << >> /\ Head(t) = "-"
      body == IF negative THEN Tail(t) ELSE t
      intDigits == DigitPrefix(body)
      rest == SubSeq(body, Len(intDigits) + 1, Len(body))
      fracDigits == IF rest # << >> /\ Head(rest) = "."
                    THEN DigitPrefix(Tail(rest)) ELSE << >>
      magnitude == DigitsValue(intDigits) * Unit + FractionValue(fracDigits)
  IN  IF intDigits = << >> /\ fracDigits = << >>
      THEN [isNaN |-> TRUE, value |-> 0]
      ELSE [isNaN |-> FALSE,
            value |-> IF negative THEN 0 - magnitude ELSE magnitude]

\* parseInt(s, 10): leading white space, optional sign, the longest prefix
\* of digits; NaN when there is none.
parseInt(s) ==
  LET t == TrimStart(s)
      negative == t # << >> /\ Head(t) = "-"
      body == IF negative THEN Tail(t) ELSE t
      intDigits == DigitPrefix(body)
  IN  IF intDigits = << >>
      THEN [isNaN |-> TRUE, value |-> 0]
      ELSE [isNaN |-> FALSE,
            value |-> IF negative THEN 0 - DigitsValue(intDigits)
                      ELSE DigitsValue(intDigits)]

\* Number.prototype.toString of a non-negative integer.
RECURSIVE toString(_)
toString(n) ==
  IF n < 10 THEN << Digits[n + 1] >>
  ELSE Append(toString(n \div 10), Digits[(n % 10) + 1])

IsLeapYear(y) == (y % 4 = 0 /\ y % 100 # 0) \/ y % 400 = 0
DaysInMonth(y, m) ==
  IF m = 2 THEN (IF IsLeapYear(y) THEN 29 ELSE 28)
  ELSE IF m \in {4, 6, 9, 11} THEN 30 ELSE 31

\* new Date(s) for a date-only ISO string YYYY-MM-DD; any other string of
\* the model is an Invalid Date (getTime() is NaN).
NewDate(s) ==
  LET wellFormed ==
        /\ Len(s) = 10
        /\ s[5] = "-" /\ s[8] = "-"
        /\ \A i \in {1, 2, 3, 4, 6, 7, 9, 10} : IsDigit(s[i])
      y == DigitsValue(SubSeq(s, 1, 4))
      m == DigitsValue(SubSeq(s, 6, 7))
      d == DigitsValue(SubSeq(s, 9, 10))
  IN  IF wellFormed /\ m \in 1..12 /\ d \in 1..DaysInMonth(y, m)
      THEN [valid |-> TRUE, year |-> y, month |-> m, day |-> d]
      ELSE [valid |-> FALSE, year |-> 0, month |-> 0, day |-> 0]

\* The en-US long month names of toLocaleString.
LongMonthNames ==
  << "January", "February", "March", "April", "May", "June", "July",
     "August", "September", "October", "November", "December" >>

---------------------------------------------------------------------------
\* hooks/useFuelData.ts: the transformation of the CSV rows.
\* A row is [CalendarDay, MetroCities, Products, Rsp]; a column that is
\* missing from a row reads as undefined, which the code treats like the
\* empty string in every test it makes, and is modelled as << >>.

Petrol == << "P", "e", "t", "r", "o", "l" >>
Diesel == << "D", "i", "e", "s", "e", "l" >>

\* The first filter without its test of the city column.
HasRequiredFields_NoCityTest(row) ==
  /\ Truthy(row.CalendarDay)
  /\ Truthy(row.Products)

\* The first filter: rows that are clearly malformed.
HasRequiredFields(row) ==
  /\ Truthy(row.CalendarDay)
  /\ Truthy(row.MetroCities)
  /\ Truthy(row.Products)

\* The rsp of a row.
ParseRsp(rspRaw) ==
  LET rspValue == Trim(rspRaw)
  IN  IF Truthy(rspValue) /\ ~parseFloat(rspValue).isNaN
      THEN parseFloat(rspValue).value
      ELSE 0

\* A map callback that also gives up on a row with no price.
TransformRow_DropsMissingPrice(row) ==
  LET date == NewDate(row.CalendarDay)
  IN  IF ~date.valid \/ ~Truthy(Trim(row.Rsp)) THEN << >>
      ELSE << [ city |-> Trim(row.MetroCities),
                fuelType |-> Trim(row.Products),
                year |-> date.year,
                month |-> LongMonthNames[date.month],
                date |-> date,
                rsp |-> ParseRsp(row.Rsp) ] >>

\* The map callback: << >> stands for null, << r >> for the record r.
TransformRow(row) ==
  LET date == NewDate(row.CalendarDay)
  IN  IF ~date.valid THEN << >>
      ELSE << [ city |-> Trim(row.MetroCities),
                fuelType |-> Trim(row.Products),
                year |-> date.year,
                month |-> LongMonthNames[date.month],
                date |-> date,
                rsp |-> ParseRsp(row.Rsp) ] >>

\* filter, map, filter over results.data.
RECURSIVE ProcessRows(_)
ProcessRows(rows) ==
  IF rows = << >> THEN << >>
  ELSE (IF HasRequiredFields(Head(rows)) THEN TransformRow(Head(rows)) ELSE << >>)
       \o ProcessRows(Tail(rows))

---------------------------------------------------------------------------
\* utils/dataProcessing.ts

\* The month names in alphabetical instead of calendar order.
MONTH_ORDER_Alphabetical ==
  << "April", "August", "December", "February", "January", "July", "June",
     "March", "May", "November", "October", "September" >>

MONTH_ORDER ==
  << "January", "February", "March", "April", "May", "June", "July",
     "August", "September", "October", "November", "December" >>

\* An add that does not look for the value in the Set.
SetAdd_NoDedup(set, x) == Append(set, x)

\* Set.prototype.add on a Set kept as the sequence of its insertion order.
SetAdd(set, x) == IF InSeq(set, x) THEN set ELSE Append(set, x)

\* Array.prototype.sort() with no comparator: ascending code unit order.
RECURSIVE InsertString(_, _)
InsertString(sorted, x) ==
  IF sorted = << >> THEN << x >>
  ELSE IF StrLess(x, Head(sorted)) THEN << x >> \o sorted
  ELSE << Head(sorted) >> \o InsertString(Tail(sorted), x)

RECURSIVE SortStrings(_)
SortStrings(arr) ==
  IF arr = << >> THEN << >>
  ELSE InsertString(SortStrings(SubSeq(arr, 1, Len(arr) - 1)), arr[Len(arr)])

\* The comparator written the other way round: (a, b) => a - b.
RECURSIVE InsertDescending_Ascending(_, _)
InsertDescending_Ascending(sorted, x) ==
  IF sorted = << >> THEN << x >>
  ELSE IF x - Head(sorted) < 0 THEN << x >> \o sorted
  ELSE << Head(sorted) >> \o InsertDescending_Ascending(Tail(sorted), x)

\* Array.prototype.sort((a, b) => b - a): descending numeric order.
RECURSIVE InsertDescending(_, _)
InsertDescending(sorted, x) ==
  IF sorted = << >> THEN << x >>
  ELSE IF Head(sorted) - x < 0 THEN << x >> \o sorted
  ELSE << Head(sorted) >> \o InsertDescending(Tail(sorted), x)

RECURSIVE SortDescending(_)
SortDescending(arr) ==
  IF arr = << >> THEN << >>
  ELSE InsertDescending(SortDescending(SubSeq(arr, 1, Len(arr) - 1)), arr[Len(arr)])

\* The three Sets after the forEach over the first n records.
RECURSIVE CollectSets(_, _)
CollectSets(data, n) ==
  IF n = 0 THEN [cities |-> << >>, fuelTypes |-> << >>, years |-> << >>]
  ELSE LET sets == CollectSets(data, n - 1)
           record == data[n]
       IN  [cities |-> SetAdd(sets.cities, record.city),
            fuelTypes |-> SetAdd(sets.fuelTypes, record.fuelType),
            years |-> SetAdd(sets.years, record.year)]

extractFilterOptions(data) ==
  LET sets == CollectSets(data, Len(data))
  IN  [cities |-> SortStrings(sets.cities),
       fuelTypes |-> SortStrings(sets.fuelTypes),
       years |-> SortDescending(sets.years)]

\* The quotient cut to two decimals instead of rounded.
ToFixed2_Truncating(total, count) ==
  LET magnitude == IF total < 0 THEN 0 - total ELSE total
      n == magnitude \div (Cent * count)
  IN  IF total < 0 THEN 0 - n * Cent ELSE n * Cent

\* Number((total / count).toFixed(2)): the quotient rounded to the nearest
\* hundredth, a tie going away from zero.
ToFixed2(total, count) ==
  LET magnitude == IF total < 0 THEN 0 - total ELSE total
      n == (2 * magnitude + Cent * count) \div (2 * Cent * count)
  IN  IF total < 0 THEN 0 - n * Cent ELSE n * Cent

\* The filter without its test of the year.
MatchesFilter_IgnoringYear(record, city, fuelType, year) ==
  /\ record.city = city
  /\ record.fuelType = fuelType

\* data.filter(record => city, fuelType and year all equal)
MatchesFilter(record, city, fuelType, year) ==
  /\ record.city = city
  /\ record.fuelType = fuelType
  /\ record.year = year

FilterData(data, city, fuelType, year) ==
  SelectSeq(data, LAMBDA record : MatchesFilter(record, city, fuelType, year))

\* monthlyData after the forEach over the first n filtered records: a Map
\* from month to {total, count}.
RECURSIVE GroupByMonth(_, _)
GroupByMonth(filteredData, n) ==
  IF n = 0 THEN << >>
  ELSE LET monthlyData == GroupByMonth(filteredData, n - 1)
           record == filteredData[n]
           existing == IF record.month \in DOMAIN monthlyData
                       THEN monthlyData[record.month]
                       ELSE [total |-> 0, count |-> 0]
           entry == [total |-> existing.total + record.rsp,
                     count |-> existing.count + 1]
       IN  [m \in (DOMAIN monthlyData) \cup {record.month} |->
              IF m = record.month THEN entry ELSE monthlyData[m]]

\* The chart with a zero entry for every month that has no data.
RECURSIVE BuildChart_ZeroFill(_, _)
BuildChart_ZeroFill(monthlyData, n) ==
  IF n = 0 THEN << >>
  ELSE LET month == MONTH_ORDER[n]
           chartData == BuildChart_ZeroFill(monthlyData, n - 1)
       IN  Append(chartData,
             [month |-> month,
              avgPrice |-> IF month \in DOMAIN monthlyData
                           THEN ToFixed2(monthlyData[month].total,
                                         monthlyData[month].count)
                           ELSE 0])

\* chartData after MONTH_ORDER.forEach has visited the first n months.
RECURSIVE BuildChart(_, _)
BuildChart(monthlyData, n) ==
  IF n = 0 THEN << >>
  ELSE LET month == MONTH_ORDER[n]
           chartData == BuildChart(monthlyData, n - 1)
       IN  IF month \in DOMAIN monthlyData
           THEN Append(chartData,
                  [month |-> month,
                   avgPrice |-> ToFixed2(monthlyData[month].total,
                                         monthlyData[month].count)])
           ELSE chartData

calculateMonthlyAverage(data, city, fuelType, year) ==
  LET filteredData == FilterData(data, city, fuelType, year)
  IN  IF Len(filteredData) = 0 THEN << >>
      ELSE BuildChart(GroupByMonth(filteredData, Len(filteredData)),
                      Len(MONTH_ORDER))

\* new Date().getFullYear() at the time the page is opened.
CurrentYear == 2025

\* getDefaultFilters without the fallback of the year.
getDefaultFilters_NoYearFallback(options) ==
  [city |-> IF Len(options.cities) > 0 /\ Truthy(options.cities[1])
            THEN options.cities[1] ELSE << >>,
   fuelType |-> IF Len(options.fuelTypes) > 0 /\ Truthy(options.fuelTypes[1])
                THEN options.fuelTypes[1] ELSE Petrol,
   year |-> IF Len(options.years) > 0 THEN options.years[1] ELSE 0]

\* options.cities[0] || '', options.fuelTypes[0] || 'Petrol',
\* options.years[0] || new Date().getFullYear()
getDefaultFilters(options) ==
  [city |-> IF Len(options.cities) > 0 /\ Truthy(options.cities[1])
            THEN options.cities[1] ELSE << >>,
   fuelType |-> IF Len(options.fuelTypes) > 0 /\ Truthy(options.fuelTypes[1])
                THEN options.fuelTypes[1] ELSE Petrol,
   year |-> IF Len(options.years) > 0 /\ options.years[1] # 0
            THEN options.years[1] ELSE CurrentYear]

---------------------------------------------------------------------------
\* State.

VARIABLES
  results,            \* rows handed to Papa's complete callback (input)
  loadState,          \* "pending", "complete" or "failed": the Papa.parse call
  data,               \* useFuelData: data
  loading,            \* useFuelData: loading
  error,              \* useFuelData: error
  selectedCity,       \* App: selectedCity
  selectedFuelType,   \* App: selectedFuelType
  selectedYear,       \* App: selectedYear
  filterOptions,      \* App: filterOptions of the last render
  defaults,           \* App: defaults of the last render, << >> for null
  chartData,          \* App: chartData of the last render
  effectDeps,         \* [defaults, selectedCity] at the last run of the effect
  applied             \* pure-function specifications: the function has run

vars == << results, loadState, data, loading, error, selectedCity,
           selectedFuelType, selectedYear, filterOptions, defaults,
           chartData, effectDeps, applied >>

\* null, for values of type string | null.
NULL == << "null" >>
LoadErrorMessage == << "Failed to load CSV file" >>

EmptyOptions == [cities |-> << >>, fuelTypes |-> << >>, years |-> << >>]

---------------------------------------------------------------------------
\* App.tsx: what a render computes from the state.

RenderFilterOptions(d) ==
  IF Len(d) > 0 THEN extractFilterOptions(d) ELSE EmptyOptions

RenderDefaults(options) ==
  IF Len(options.cities) > 0 THEN << getDefaultFilters(options) >> ELSE << >>

RenderChartData(d, city, fuelType, year) ==
  IF Len(d) > 0 /\ Truthy(city)
  THEN calculateMonthlyAverage(d, city, fuelType, year)
  ELSE << >>

\* The render that follows setData: data is a dependency of filterOptions
\* and chartData, and filterOptions of defaults, so all three useMemo
\* values are computed again.
RenderAfterLoad(d, city, fuelType, year) ==
  /\ filterOptions' = RenderFilterOptions(d)
  /\ defaults' = RenderDefaults(RenderFilterOptions(d))
  /\ chartData' = RenderChartData(d, city, fuelType, year)

\* A render after a change of the selection that returns the memoized
\* chartData: a useMemo whose dependency array lacks the selection.
RenderAfterSelection_Stale(city, fuelType, year) ==
  UNCHANGED << chartData, filterOptions, defaults >>

\* The render that follows a change of the selection: only chartData
\* depends on it; filterOptions and defaults keep their memoized values.
RenderAfterSelection(city, fuelType, year) ==
  /\ chartData' = RenderChartData(data, city, fuelType, year)
  /\ UNCHANGED << filterOptions, defaults >>

\* The effect [defaults, selectedCity] has run for the current values.
EffectsFlushed == effectDeps = << defaults, selectedCity >>

\* The main UI, with the filter controls, is what the last render returned.
MainUIShown == ~loading /\ error = NULL

---------------------------------------------------------------------------
\* Inputs of the application specification.

\* Builds a row from its four fields.
Row(day, city, product, rsp) ==
  [CalendarDay |-> day, MetroCities |-> city, Products |-> product, Rsp |-> rsp]

Jan15_2023 == << "2", "0", "2", "3", "-", "0", "1", "-", "1", "5" >>
Feb10_2023 == << "2", "0", "2", "3", "-", "0", "2", "-", "1", "0" >>
Jan05_2022 == << "2", "0", "2", "2", "-", "0", "1", "-", "0", "5" >>
Month13 == << "2", "0", "2", "3", "-", "1", "3", "-", "0", "1" >>

\* The rows a CSV file is made of: well-formed rows that differ in city,
\* fuel type, year, month and price, and rows with a defect.
RawRowSamples ==
  { Row(Jan15_2023, << "A" >>, Petrol, << "1" >>),
    Row(Jan15_2023, << "A" >>, Petrol, << >>),
    Row(Feb10_2023, << " ", "A", " " >>, Petrol, << " ", "2", ".", "5" >>),
    Row(Jan15_2023, << "B" >>, Petrol, << "x" >>),
    Row(Jan15_2023, << "A" >>, Diesel \o << " " >>, << "1", "x" >>),
    Row(Jan05_2022, << "A" >>, Petrol, << "-", "1" >>),
    Row(Jan15_2023, << " " >>, << "C", "N", "G" >>, << "1" >>),
    Row(<< >>, << "A" >>, Petrol, << "1" >>),
    Row(Jan15_2023, << >>, Petrol, << "1" >>),
    Row(Jan15_2023, << "A" >>, << >>, << "1" >>),
    Row(Month13, << "A" >>, Petrol, << >>) }

\* All sequences of at most n elements of S.
RECURSIVE SeqsUpTo(_, _)
SeqsUpTo(S, n) ==
  IF n = 0 THEN { << >> }
  ELSE LET shorter == SeqsUpTo(S, n - 1)
       IN  shorter \cup { Append(q, x) : q \in shorter, x \in S }

---------------------------------------------------------------------------
\* The application: useFuelData and App.

Init ==
  /\ results = << >>
  /\ loadState = "pending"
  /\ data = << >>
  /\ loading = TRUE
  /\ error = NULL
  /\ selectedCity = << >>
  /\ selectedFuelType = Petrol
  /\ selectedYear = CurrentYear
  /\ filterOptions = EmptyOptions
  /\ defaults = << >>
  /\ chartData = << >>
  /\ effectDeps = << << >>, << >> >>
  /\ applied = FALSE

\* A complete callback whose setLoading(false) is missing.
LoadComplete_KeepsLoading ==
  /\ loadState = "pending"
  /\ \E rows \in SeqsUpTo(RawRowSamples, MaxRows) :
       /\ results' = rows
       /\ data' = ProcessRows(rows)
       /\ RenderAfterLoad(ProcessRows(rows), selectedCity, selectedFuelType,
                          selectedYear)
  /\ loadState' = "complete"
  /\ UNCHANGED << loading, error, selectedCity, selectedFuelType, selectedYear,
                  effectDeps, applied >>

\* A complete callback that runs again after the load: the effect of
\* useFuelData without its empty dependency array.
LoadComplete_Reloads ==
  /\ loadState \in { "pending", "complete" }
  /\ \E rows \in SeqsUpTo(RawRowSamples, MaxRows) :
       /\ results' = rows
       /\ data' = ProcessRows(rows)
       /\ RenderAfterLoad(ProcessRows(rows), selectedCity, selectedFuelType,
                          selectedYear)
  /\ loading' = FALSE
  /\ loadState' = "complete"
  /\ UNCHANGED << error, selectedCity, selectedFuelType, selectedYear,
                  effectDeps, applied >>

\* Papa's complete callback: setData(processedData); setLoading(false).
LoadComplete ==
  /\ loadState = "pending"
  /\ \E rows \in SeqsUpTo(RawRowSamples, MaxRows) :
       /\ results' = rows
       /\ data' = ProcessRows(rows)
       /\ RenderAfterLoad(ProcessRows(rows), selectedCity, selectedFuelType,
                          selectedYear)
  /\ loading' = FALSE
  /\ loadState' = "complete"
  /\ UNCHANGED << error, selectedCity, selectedFuelType, selectedYear,
                  effectDeps, applied >>

\* An error callback that sets the error and leaves loading as it is.
LoadError_KeepsLoading ==
  /\ loadState = "pending"
  /\ error' = LoadErrorMessage
  /\ loadState' = "failed"
  /\ UNCHANGED << results, data, loading, selectedCity, selectedFuelType,
                  selectedYear, filterOptions, defaults, chartData, effectDeps,
                  applied >>

\* Papa's error callback: setError(...); setLoading(false).  No dependency
\* of a useMemo value changes.
LoadError ==
  /\ loadState = "pending"
  /\ error' = LoadErrorMessage
  /\ loading' = FALSE
  /\ loadState' = "failed"
  /\ UNCHANGED << results, data, selectedCity, selectedFuelType, selectedYear,
                  filterOptions, defaults, chartData, effectDeps, applied >>

\* The effect that initializes the filters, run after a render in which
\* defaults or selectedCity changed.
InitializeFilters ==
  /\ ~EffectsFlushed
  /\ effectDeps' = << defaults, selectedCity >>
  /\ IF defaults # << >> /\ ~Truthy(selectedCity)
     THEN /\ selectedCity' = defaults[1].city
          /\ selectedFuelType' = defaults[1].fuelType
          /\ selectedYear' = defaults[1].year
          /\ RenderAfterSelection(defaults[1].city, defaults[1].fuelType,
                                  defaults[1].year)
     ELSE UNCHANGED << selectedCity, selectedFuelType, selectedYear,
                       filterOptions, defaults, chartData >>
  /\ UNCHANGED << results, loadState, data, loading, error, applied >>

\* The values a Select can hand to its onChange: one of its options, null,
\* or the empty string.
SelectValues(options) ==
  { options[i] : i \in 1..Len(options) } \cup { NULL, << >> }

handleCityChange ==
  /\ MainUIShown /\ EffectsFlushed
  /\ \E value \in SelectValues(filterOptions.cities) :
       IF value # NULL /\ Truthy(value)
       THEN /\ selectedCity' = value
            /\ RenderAfterSelection(value, selectedFuelType, selectedYear)
       ELSE UNCHANGED << selectedCity, filterOptions, defaults, chartData >>
  /\ UNCHANGED << results, loadState, data, loading, error, selectedFuelType,
                  selectedYear, effectDeps, applied >>

handleFuelTypeChange ==
  /\ MainUIShown /\ EffectsFlushed
  /\ \E value \in SelectValues(filterOptions.fuelTypes) :
       IF value = Petrol \/ value = Diesel
       THEN /\ selectedFuelType' = value
            /\ RenderAfterSelection(selectedCity, value, selectedYear)
       ELSE UNCHANGED << selectedFuelType, filterOptions, defaults, chartData >>
  /\ UNCHANGED << results, loadState, data, loading, error, selectedCity,
                  selectedYear, effectDeps, applied >>

\* The year Select holds the years as strings (year.toString()).
YearStrings(years) == [i \in 1..Len(years) |-> toString(years[i])]

handleYearChange ==
  /\ MainUIShown /\ EffectsFlushed
  /\ \E value \in SelectValues(YearStrings(filterOptions.years)) :
       IF value # NULL /\ Truthy(value)
       THEN /\ selectedYear' = parseInt(value).value
            /\ RenderAfterSelection(selectedCity, selectedFuelType,
                                    parseInt(value).value)
       ELSE UNCHANGED << selectedYear, filterOptions, defaults, chartData >>
  /\ UNCHANGED << results, loadState, data, loading, error, selectedCity,
                  selectedFuelType, effectDeps, applied >>

Next ==
  \/ LoadComplete
  \/ LoadError
  \/ InitializeFilters
  \/ handleCityChange
  \/ handleFuelTypeChange
  \/ handleYearChange

Spec == Init /\ [][Next]_vars

---------------------------------------------------------------------------
\* The pure functions of utils/dataProcessing.ts, applied to records drawn
\* from bounded sets.

\* A FuelPriceRecord for the first day of month number m.
Record(city, fuelType, year, m, rsp) ==
  [ city |-> city, fuelType |-> fuelType, year |-> year,
    month |-> LongMonthNames[m],
    date |-> [valid |-> TRUE, year |-> year, month |-> m, day |-> 1],
    rsp |-> rsp ]

\* The key of the first selection, and keys that differ from it in exactly
\* one dimension.
FirstKey == << << "A" >>, Petrol, 2023 >>
OtherKeys ==
  { << << "B" >>, Petrol, 2023 >>,
    << << "A" >>, Diesel, 2023 >>,
    << << "A" >>, Petrol, 2022 >> }

AggregateSelections == { FirstKey, << << "B" >>, Petrol, 2023 >> }

\* Records of two months: two prices under the first key, one price under
\* each other key.
AggregateRecords ==
  { Record(FirstKey[1], FirstKey[2], FirstKey[3], m, rsp) :
      m \in {1, 2}, rsp \in {0, Cent} }
  \cup { Record(k[1], k[2], k[3], m, 3 * Unit) : k \in OtherKeys, m \in {1, 2} }

PureInit ==
  /\ results = << >>
  /\ loadState = "complete"
  /\ loading = FALSE
  /\ error = NULL
  /\ filterOptions = EmptyOptions
  /\ defaults = << >>
  /\ chartData = << >>
  /\ effectDeps = << << >>, << >> >>
  /\ applied = FALSE

AggregateInit ==
  /\ PureInit
  /\ data \in SeqsUpTo(AggregateRecords, MaxRecords)
  /\ \E sel \in AggregateSelections :
       /\ selectedCity = sel[1]
       /\ selectedFuelType = sel[2]
       /\ selectedYear = sel[3]

ApplyAggregate ==
  /\ ~applied
  /\ applied' = TRUE
  /\ chartData' = calculateMonthlyAverage(data, selectedCity, selectedFuelType,
                                          selectedYear)
  /\ UNCHANGED << results, loadState, data, loading, error, selectedCity,
                  selectedFuelType, selectedYear, filterOptions, defaults,
                  effectDeps >>

SpecAggregate == AggregateInit /\ [][ApplyAggregate]_vars

\* Every city with every year for Petrol, and two Diesel records.
ExtractRecords ==
  { Record(city, Petrol, year, 1, 0) :
      city \in { << "A" >>, << "A", "B" >>, << "B" >> },
      year \in { 2022, 2023, 2024 } }
  \cup { Record(<< "A" >>, Diesel, 2022, 1, 0),
         Record(<< "B" >>, Diesel, 2023, 1, 0) }

ExtractInit ==
  /\ PureInit
  /\ data \in SeqsUpTo(ExtractRecords, MaxRecords)
  /\ selectedCity = << >>
  /\ selectedFuelType = Petrol
  /\ selectedYear = CurrentYear

ApplyExtract ==
  /\ ~applied
  /\ applied' = TRUE
  /\ filterOptions' = extractFilterOptions(data)
  /\ UNCHANGED << results, loadState, data, loading, error, selectedCity,
                  selectedFuelType, selectedYear, defaults, chartData,
                  effectDeps >>

SpecExtract == ExtractInit /\ [][ApplyExtract]_vars

---------------------------------------------------------------------------
\* Properties of calculateMonthlyAverage (SpecAggregate).

\* The record is in the current selection.
Selected(record) ==
  /\ record.city = selectedCity
  /\ record.fuelType = selectedFuelType
  /\ record.year = selectedYear

\* Positions of the selected records of the month.
SelectedIn(month) ==
  { i \in 1..Len(data) : Selected(data[i]) /\ data[i].month = month }

\* Sum of rsp over a set of positions of data.
RECURSIVE SumRsp(_)
SumRsp(positions) ==
  IF positions = {} THEN 0
  ELSE LET i == CHOOSE j \in positions : TRUE
       IN  data[i].rsp + SumRsp(positions \ {i})

\* avg is a multiple of 0.01 nearest to total / count.
IsMeanRoundedTo2(avg, total, count) ==
  /\ avg % Cent = 0
  /\ 2 * (avg * count - total) <= Cent * count
  /\ 2 * (total - avg * count) <= Cent * count

\* Position of a month in the calendar, 0 for a name that is no month.
CalendarIndex(month) ==
  IF InSeq(LongMonthNames, month) THEN IndexIn(LongMonthNames, month) ELSE 0

\* All orderings of the positions 1..n.
OrderingsOf ==
  [ n \in 0..(MaxRecords + 1) |->
      { p \in [1..n -> 1..n] : \A i, j \in 1..n : i # j => p[i] # p[j] } ]

Orderings(n) == OrderingsOf[n]

Permuted(seq, p) == [i \in 1..Len(seq) |-> seq[p[i]]]

\* C1: every entry of the result of calculateMonthlyAverage carries the
\* sum of rsp over the selected records of its month divided by their
\* number, rounded to 2 decimal places.
C1_MeanCorrect ==
  applied =>
    \A k \in 1..Len(chartData) :
      LET positions == SelectedIn(chartData[k].month)
      IN  /\ positions # {}
          /\ IsMeanRoundedTo2(chartData[k].avgPrice, SumRsp(positions),
                              Cardinality(positions))

\* A month of three selected records whose mean is not a multiple of 0.01.
C1_Witness ==
  /\ applied
  /\ \E k \in 1..Len(chartData) :
       LET positions == SelectedIn(chartData[k].month)
       IN  /\ Cardinality(positions) = 3
           /\ SumRsp(positions) % (3 * Cent) # 0

C3_OmissionNotZeroFill ==
  applied =>
    /\ Len(chartData) <= 12
    /\ \A m \in 1..12 :
         Cardinality({ k \in 1..Len(chartData) :
                         chartData[k].month = LongMonthNames[m] })
           = IF SelectedIn(LongMonthNames[m]) # {} THEN 1 ELSE 0
    /\ \A k \in 1..Len(chartData) : SelectedIn(chartData[k].month) # {}

\* One month in the result while the input has a record of another month
\* that is not selected.
C3_Witness ==
  /\ applied
  /\ Len(chartData) = 1
  /\ \E i \in 1..Len(data) :
       ~Selected(data[i]) /\ data[i].month # chartData[1].month

\* The records of data that are in the current selection, in order.
SelectedRecords == SelectSeq(data, Selected)

\* C4: only records equal to the selection in city, fuel type and year are
\* used: the result is that of the selected records alone, and it is empty
\* when no record is selected.
C4_ExactFilter ==
  applied =>
    /\ chartData = calculateMonthlyAverage(SelectedRecords, selectedCity,
                                           selectedFuelType, selectedYear)
    /\ (SelectedRecords = << >>) => (chartData = << >>)
    /\ (SelectedRecords # << >>) => (chartData # << >>)

\* No record is selected, though the input has a record that differs from
\* the selection only in city, one only in fuel type and one only in year.
C4_Witness ==
  /\ applied
  /\ chartData = << >>
  /\ \E i \in 1..Len(data) :
       /\ data[i].city # selectedCity
       /\ data[i].fuelType = selectedFuelType /\ data[i].year = selectedYear
  /\ \E i \in 1..Len(data) :
       /\ data[i].fuelType # selectedFuelType
       /\ data[i].city = selectedCity /\ data[i].year = selectedYear
  /\ \E i \in 1..Len(data) :
       /\ data[i].year # selectedYear
       /\ data[i].city = selectedCity /\ data[i].fuelType = selectedFuelType

---------------------------------------------------------------------------
\* Properties of extractFilterOptions (SpecExtract).

\* The elements of a sequence.
Range(seq) == { seq[i] : i \in 1..Len(seq) }

NoDuplicates(seq) == \A i, j \in 1..Len(seq) : i # j => seq[i] # seq[j]

\* a comes before b in lexicographic order of code units: a is a proper
\* prefix of b, or the two differ first at a position where a is smaller.
LexBefore(a, b) ==
  \/ /\ Len(a) < Len(b)
     /\ \A i \in 1..Len(a) : a[i] = b[i]
  \/ \E k \in 1..Len(a) :
       /\ k <= Len(b)
       /\ \A i \in 1..(k - 1) : a[i] = b[i]
       /\ Code(a[k]) < Code(b[k])

\* C5: each list of the result of extractFilterOptions has no duplicates and
\* holds exactly the distinct values of its field in the input.
C5_ExtractionComplete ==
  applied =>
    /\ NoDuplicates(filterOptions.cities)
    /\ NoDuplicates(filterOptions.fuelTypes)
    /\ NoDuplicates(filterOptions.years)
    /\ Range(filterOptions.cities) = { data[i].city : i \in 1..Len(data) }
    /\ Range(filterOptions.fuelTypes) = { data[i].fuelType : i \in 1..Len(data) }
    /\ Range(filterOptions.years) = { data[i].year : i \in 1..Len(data) }
    /\ (data = << >>) => (filterOptions = EmptyOptions)

\* An input in which a city, a fuel type and a year each occur twice, next
\* to another value of the field.
C5_Witness ==
  /\ applied
  /\ Len(data) = 3
  /\ Len(filterOptions.cities) = 2
  /\ Len(filterOptions.fuelTypes) = 2
  /\ Len(filterOptions.years) = 2

\* C6: cities and fuel types come out in ascending lexicographic order,
\* years in strictly descending order, and the result is the same for
\* every permutation of the input records.
C6_OrderingContract ==
  applied =>
    /\ \A k \in 1..(Len(filterOptions.cities) - 1) :
         LexBefore(filterOptions.cities[k], filterOptions.cities[k + 1])
    /\ \A k \in 1..(Len(filterOptions.fuelTypes) - 1) :
         LexBefore(filterOptions.fuelTypes[k], filterOptions.fuelTypes[k + 1])
    /\ \A k \in 1..(Len(filterOptions.years) - 1) :
         filterOptions.years[k] > filterOptions.years[k + 1]
    /\ \A p \in Orderings(Len(data)) :
         extractFilterOptions(Permuted(data, p)) = filterOptions

\* Three cities and three years that the input gives in an order that is
\* neither ascending nor descending, and both fuel types, Petrol first.
C6_Witness ==
  /\ applied
  /\ Len(data) = 3
  /\ data[1].city = << "B" >> /\ data[2].city = << "A" >>
  /\ data[3].city = << "A", "B" >>
  /\ data[1].year = 2023 /\ data[2].year = 2022 /\ data[3].year = 2024
  /\ data[1].fuelType = Petrol /\ data[2].fuelType = Diesel
  /\ filterOptions.cities = << << "A" >>, << "A", "B" >>, << "B" >> >>
  /\ filterOptions.years = << 2024, 2023, 2022 >>

---------------------------------------------------------------------------
\* Properties of the record parser (Spec).

\* The row has its three identifying fields.
HasIdentifyingFields(row) ==
  /\ row.CalendarDay # << >>
  /\ row.MetroCities # << >>
  /\ row.Products # << >>

\* The row has its three identifying fields and a date that parses.
RowYieldsRecord(row) ==
  HasIdentifyingFields(row) /\ NewDate(row.CalendarDay).valid

\* For each row handed to the load callback, whether it yields a record.
YieldFlags == [ k \in 1..Len(results) |-> RowYieldsRecord(results[k]) ]

\* Number of the rows among the first i that yield a record: the position
\* in the working set of the record of row i, when row i yields one.
RecordIndexBy(flags, i) == Cardinality({ k \in 1..i : flags[k] })

RecordIndex(i) == RecordIndexBy(YieldFlags, i)

\* The string is a decimal number from its first to its last character: an
\* optional sign, digits with at most one point, at least one digit.
IsDecimalNumber(t) ==
  LET body == IF t # << >> /\ t[1] = "-" THEN Tail(t) ELSE t
  IN  /\ \E i \in 1..Len(body) : IsDigit(body[i])
      /\ \A i \in 1..Len(body) : IsDigit(body[i]) \/ body[i] = "."
      /\ Cardinality({ i \in 1..Len(body) : body[i] = "." }) <= 1

\* The string begins with a decimal number: after an optional sign, a
\* digit, or a point and a digit.
BeginsWithNumber(t) ==
  LET body == IF t # << >> /\ t[1] = "-" THEN Tail(t) ELSE t
  IN  \/ Len(body) >= 1 /\ IsDigit(body[1])
      \/ Len(body) >= 2 /\ body[1] = "." /\ IsDigit(body[2])

\* Positions of the records of data with the key and month of data[j].
GroupOf(j) ==
  { k \in 1..Len(data) :
      /\ data[k].city = data[j].city
      /\ data[k].fuelType = data[j].fuelType
      /\ data[k].year = data[j].year
      /\ data[k].month = data[j].month }

\* In the aggregate for its own key, data[j] adds 0 to the sum of its month
\* and 1 to the count: the month's average is that of the sum of the other
\* records of the group over their number plus one.
CountsAsZero(j) ==
  LET chart == calculateMonthlyAverage(data, data[j].city, data[j].fuelType,
                                       data[j].year)
      others == GroupOf(j) \ {j}
  IN  \E k \in 1..Len(chart) :
        /\ chart[k].month = data[j].month
        /\ IsMeanRoundedTo2(chart[k].avgPrice, SumRsp(others),
                            Cardinality(others) + 1)

\* C7 as claimed: a row that has date (one that parses), city and fuel
\* type and whose price field is empty or is not a number is kept, with
\* rsp 0, and counts as 0 in the sum and 1 in the count of its month.
C7_AsClaimed ==
  loadState = "complete" =>
    LET flags == YieldFlags
    IN  \A i \in 1..Len(results) :
          (flags[i] /\ ~IsDecimalNumber(Trim(results[i].Rsp)))
            => /\ RecordIndexBy(flags, i) \in 1..Len(data)
               /\ data[RecordIndexBy(flags, i)].rsp = 0
               /\ CountsAsZero(RecordIndexBy(flags, i))

\* C7, amended: a row that has date (one that parses), city and fuel type
\* and whose trimmed price field is empty or does not begin with a number
\* is kept, with rsp 0, and counts as 0 in the sum and 1 in the count of
\* its month.
C7_MissingPriceIsZero ==
  loadState = "complete" =>
    LET flags == YieldFlags
    IN  \A i \in 1..Len(results) :
          (flags[i] /\ ~BeginsWithNumber(Trim(results[i].Rsp)))
            => /\ RecordIndexBy(flags, i) \in 1..Len(data)
               /\ data[RecordIndexBy(flags, i)].rsp = 0
               /\ CountsAsZero(RecordIndexBy(flags, i))

\* A kept row with an empty price and a kept row with a non-numeric price,
\* the first in a group with a record of positive price.
C7_Witness ==
  /\ loadState = "complete"
  /\ \E i, j \in 1..Len(results) :
       /\ RowYieldsRecord(results[i]) /\ results[i].Rsp = << >>
       /\ RowYieldsRecord(results[j]) /\ results[j].Rsp = << "x" >>
       /\ \E k \in GroupOf(RecordIndex(i)) : data[k].rsp > 0

\* The record is the one the row describes.
RecordOfRow(record, row) ==
  LET date == NewDate(row.CalendarDay)
  IN  /\ record.city = Trim(row.MetroCities)
      /\ record.fuelType = Trim(row.Products)
      /\ record.date = date
      /\ record.year = date.year
      /\ record.month = LongMonthNames[date.month]

\* C8: after the load completes the working set holds, in source order,
\* one record for each row with the three identifying fields and a date
\* that parses, and nothing else; dropped rows raise no error.
C8_ValidRowsKeptInOrder ==
  loadState = "complete" =>
    /\ LET flags == YieldFlags
       IN  /\ Len(data) = RecordIndexBy(flags, Len(results))
           /\ \A i \in 1..Len(results) :
                flags[i] => RecordOfRow(data[RecordIndexBy(flags, i)], results[i])
    /\ error = NULL
    /\ ~loading

\* Three rows, the middle one with a date that does not parse: two
\* different records are kept, in the order of their rows.
C8_Witness ==
  /\ loadState = "complete"
  /\ Len(results) = 3
  /\ RowYieldsRecord(results[1])
  /\ HasIdentifyingFields(results[2]) /\ ~NewDate(results[2].CalendarDay).valid
  /\ RowYieldsRecord(results[3])
  /\ Len(data) = 2
  /\ data[1] # data[2]
  /\ RecordOfRow(data[2], results[3])
  /\ ~RecordOfRow(data[1], results[3])

\* The string is not empty and neither starts nor ends with white space.
NonEmptyTrimmed(str) ==
  /\ str # << >>
  /\ ~IsWhiteSpace(str[1])
  /\ ~IsWhiteSpace(str[Len(str)])

\* C9: every record of the working set, and every city of the filter
\* options, has a city that is not empty and carries no surrounding white
\* space.
C9_CityNonEmptyTrimmed ==
  /\ \A i \in 1..Len(data) : NonEmptyTrimmed(data[i].city)
  /\ \A k \in 1..Len(filterOptions.cities) :
       NonEmptyTrimmed(filterOptions.cities[k])

\* C10: every record of the working set has fuel type Petrol or Diesel.
C10_FuelTypeInEnumeration ==
  \A i \in 1..Len(data) : data[i].fuelType \in { Petrol, Diesel }

\* C11: every record of the working set has a price that is not negative,
\* whatever string the price field of its row holds.
C11_RspNonNegative ==
  \A i \in 1..Len(data) : data[i].rsp >= 0

---------------------------------------------------------------------------
\* getDefaultFilters applied to filter options drawn from bounded sets
\* (SpecDefaults).

\* The elements of base at the positions of keep that are at most n, in
\* the order of base.
RECURSIVE Sublist(_, _, _)
Sublist(base, keep, n) ==
  IF n = 0 THEN << >>
  ELSE IF n \in keep THEN Append(Sublist(base, keep, n - 1), base[n])
       ELSE Sublist(base, keep, n - 1)

Sublists(base) ==
  { Sublist(base, keep, Len(base)) : keep \in SUBSET (1..Len(base)) }

\* Cities ascending, fuel types ascending, years descending, as
\* extractFilterOptions orders them.  new Date("0000-01-15") is a valid
\* date of year 0.
CitySamples == << << >>, << "A" >>, << "B" >> >>
FuelTypeSamples == << Diesel, Petrol >>
YearSamples == << 2024, 2023, 0 >>

DefaultsInit ==
  /\ results = << >>
  /\ loadState = "complete"
  /\ data = << >>
  /\ loading = FALSE
  /\ error = NULL
  /\ selectedCity = << >>
  /\ selectedFuelType = Petrol
  /\ selectedYear = CurrentYear
  /\ filterOptions \in
       { [cities |-> c, fuelTypes |-> f, years |-> y] :
           c \in Sublists(CitySamples), f \in Sublists(FuelTypeSamples),
           y \in Sublists(YearSamples) }
  /\ defaults = << >>
  /\ chartData = << >>
  /\ effectDeps = << << >>, << >> >>
  /\ applied = FALSE

ApplyDefaults ==
  /\ ~applied
  /\ applied' = TRUE
  /\ defaults' = << getDefaultFilters(filterOptions) >>
  /\ UNCHANGED << results, loadState, data, loading, error, selectedCity,
                  selectedFuelType, selectedYear, filterOptions, chartData,
                  effectDeps >>

SpecDefaults == DefaultsInit /\ [][ApplyDefaults]_vars

\* C12: for filter options whose three lists are not empty, the result of
\* getDefaultFilters is the first city, the first fuel type and the first
\* year, whatever these values are.
C12_DefaultsAreFirstValues ==
  ( /\ applied
    /\ Len(filterOptions.cities) > 0
    /\ Len(filterOptions.fuelTypes) > 0
    /\ Len(filterOptions.years) > 0 )
  => defaults[1] = [ city |-> filterOptions.cities[1],
                     fuelType |-> filterOptions.fuelTypes[1],
                     year |-> filterOptions.years[1] ]

---------------------------------------------------------------------------
\* Properties of the load state machine and of the selection (Spec).

\* The error state: an error, no loading, no records, no filter options,
\* no defaults and no chart data.
ErrorState ==
  /\ error # NULL
  /\ ~loading
  /\ data = << >>
  /\ filterOptions = EmptyOptions
  /\ defaults = << >>
  /\ chartData = << >>

\* C13: the step that sets the error leads to the error state, and every
\* step taken in the error state leaves the error, the load and the empty
\* records, filter options and chart data as they are.
C13_LoadFailureIsTerminal ==
  /\ [][(error = NULL /\ error' # NULL) => ErrorState']_vars
  /\ [][ErrorState =>
         (ErrorState' /\ error' = error /\ loadState' = loadState)]_vars

\* The load has failed.
C13_Witness ==
  /\ loadState = "failed"
  /\ ErrorState

\* C14: the working record set is empty while the load is in progress; a
\* step changes it only if it ends the load, the load never starts again,
\* and so the record set is assigned at most once and no later step of the
\* selection changes it.
C14_RecordSetWriteOnce ==
  /\ [](loading => data = << >>)
  /\ [][data' # data => (loading /\ ~loading')]_vars
  /\ [][~loading => ~loading']_vars

\* Records were loaded and the user has since chosen another city, fuel
\* type and year than the defaults.
C14_Witness ==
  /\ ~loading
  /\ data # << >>
  /\ defaults # << >>
  /\ Truthy(selectedCity)
  /\ selectedCity # defaults[1].city
  /\ selectedFuelType # defaults[1].fuelType
  /\ selectedYear # defaults[1].year

\* C15: in every state the chart data of the last render is
\* calculateMonthlyAverage of the current records and the current
\* selection if there are records and the selected city is not empty, and
\* the empty sequence otherwise.
C15_ChartDataNeverStale ==
  chartData =
    IF data # << >> /\ selectedCity # << >>
    THEN calculateMonthlyAverage(data, selectedCity, selectedFuelType,
                                 selectedYear)
    ELSE << >>

\* The user has chosen another city than the default one and the chart
\* shows data of that city.
C15_Witness ==
  /\ ~loading
  /\ defaults # << >>
  /\ selectedCity # << >>
  /\ selectedCity # defaults[1].city
  /\ chartData # << >>

\* C16: getDefaultFilters of filter options with three empty lists is the
\* empty city, Petrol and the current year; and in every state in which
\* the selected city is the empty string the chart data is empty.
C16_EmptyOptionsAndEmptyCity ==
  /\ getDefaultFilters(EmptyOptions) =
       [city |-> << >>, fuelType |-> Petrol, year |-> CurrentYear]
  /\ (selectedCity = << >> => chartData = << >>)

\* Records are loaded, the effect has run, and the selected city is still
\* the empty string.
C16_Witness ==
  /\ data # << >>
  /\ EffectsFlushed
  /\ selectedCity = << >>
  /\ chartData = << >>

\* The selection.
Selection == << selectedCity, selectedFuelType, selectedYear >>

\* C17: once records are loaded and the selection-initialization effect
\* has run, the selected city is not empty.
C17_InitializationLeavesCity ==
  (data # << >> /\ EffectsFlushed) => selectedCity # << >>

\* The rest of C17: a run of the effect changes the selection only if it
\* is the first run since the load, and then the selection becomes the
\* default triple; no later run of the effect changes the selection.
C17_DefaultsAppliedOnce ==
  [][(effectDeps' # effectDeps /\ Selection' # Selection) =>
       /\ effectDeps = << << >>, << >> >>
       /\ defaults # << >>
       /\ Selection' = << defaults[1].city, defaults[1].fuelType,
                          defaults[1].year >>]_vars

\* A step of a change handler that changes the selection: the handlers
\* are called from the main UI, after the effects of the last render.
HandlerStep ==
  /\ MainUIShown
  /\ EffectsFlushed
  /\ Selection' # Selection

\* C18: after every call of a change handler the selected fuel type is
\* Petrol or Diesel.
C18_FuelTypeAfterHandlers ==
  [][HandlerStep => selectedFuelType' \in { Petrol, Diesel }]_vars

\* The rest of C18: a handler changes one dimension of the selection and
\* leaves the other two; the city it sets is not null and not empty, the
\* fuel type it sets is Petrol or Diesel, the year it sets is a year
\* of the filter options; and no step empties a selected city.
C18_HandlersFrameAndReject ==
  /\ [][HandlerStep =>
         \/ /\ selectedCity' \notin { selectedCity, NULL, << >> }
            /\ UNCHANGED << selectedFuelType, selectedYear >>
         \/ /\ selectedFuelType' # selectedFuelType
            /\ selectedFuelType' \in { Petrol, Diesel }
            /\ UNCHANGED << selectedCity, selectedYear >>
         \/ /\ selectedYear' # selectedYear
            /\ \E k \in 1..Len(filterOptions.years) :
                 selectedYear' = filterOptions.years[k]
            /\ UNCHANGED << selectedCity, selectedFuelType >>]_vars
  /\ [][selectedCity # << >> => selectedCity' # << >>]_vars

\* C19: in every state loading is not true together with an error or with
\* records, and an error is not present together with records; once the
\* complete or the error callback has run loading is false, and loading
\* never becomes true again.
C19_LoadSignalsConsistent ==
  /\ [](/\ ~(loading /\ error # NULL)
        /\ ~(loading /\ data # << >>)
        /\ ~(error # NULL /\ data # << >>))
  /\ [](loadState # "pending" => ~loading)
  /\ [][~loading => ~loading']_vars

\* Records are loaded without an error and the selection is initialized.
C19_Witness ==
  /\ loadState = "complete"
  /\ ~loading
  /\ error = NULL
  /\ data # << >>
  /\ EffectsFlushed
  /\ selectedCity # << >>

=============================================================================
